---- MODULE Spec2Model ----
(***************************************************************************)
(* Model of code/train_deploy_xgboost_with_dependencies.py: the argument   *)
(* resolver parse_args(), the driver train(), the __main__ block and the   *)
(* loader model_fn().                                                      *)
(*                                                                         *)
(* Python strings are tuples of one-character strings, so that prefix      *)
(* matching, splitting, concatenation and number parsing are computed.     *)
(* Python values are records [t, i, e, s]: t is the type tag, i and e hold *)
(* integers (a float is the decimal i * 10^e with i not divisible by 10),  *)
(* s holds the characters of a str.                                        *)
(***************************************************************************)
EXTENDS Integers, Sequences, FiniteSets, TLC

(***************************************************************************)
(* Python values                                                           *)
(***************************************************************************)
None == [t |-> "none", i |-> 0, e |-> 0, s |-> <<>>]
StrVal(chars) == [t |-> "str", i |-> 0, e |-> 0, s |-> chars]
IntVal(n) == [t |-> "int", i |-> n, e |-> 0, s |-> <<>>]
FloatVal(m, x) == [t |-> "float", i |-> m, e |-> x, s |-> <<>>]
\* the outcome of a failed conversion (ValueError inside the type callable)
ValueError == [t |-> "ValueError", i |-> 0, e |-> 0, s |-> <<>>]

(***************************************************************************)
(* str operations                                                          *)
(***************************************************************************)
StartsWith(str, prefix) ==
    /\ Len(prefix) <= Len(str)
    /\ SubSeq(str, 1, Len(prefix)) = prefix

\* str.find for one character, 1-based; 0 when the character does not occur
Find(str, c) ==
    IF \E k \in 1..Len(str) : str[k] = c
    THEN CHOOSE k \in 1..Len(str) : str[k] = c /\ \A j \in 1..(k - 1) : str[j] # c
    ELSE 0

Digits == {"0", "1", "2", "3", "4", "5", "6", "7", "8", "9"}

DigitVal(c) ==
    CASE c = "0" -> 0 [] c = "1" -> 1 [] c = "2" -> 2 [] c = "3" -> 3
      [] c = "4" -> 4 [] c = "5" -> 5 [] c = "6" -> 6 [] c = "7" -> 7
      [] c = "8" -> 8 [] c = "9" -> 9

AllDigits(str) == \A k \in 1..Len(str) : str[k] \in Digits

RECURSIVE DecimalValue(_)
DecimalValue(str) ==
    IF str = <<>> THEN 0
    ELSE 10 * DecimalValue(SubSeq(str, 1, Len(str) - 1)) + DigitVal(str[Len(str)])

\* the text after an optional sign
Unsigned(str) ==
    IF str # <<>> /\ str[1] \in {"+", "-"} THEN SubSeq(str, 2, Len(str)) ELSE str

Sign(str) == IF str # <<>> /\ str[1] = "-" THEN -1 ELSE 1

\* int(str) for texts over signs, digits, "." and other characters:
\* an optional sign followed by one or more decimal digits
PyInt(str) ==
    LET body == Unsigned(str)
    IN  IF body # <<>> /\ AllDigits(body)
        THEN IntVal(Sign(str) * DecimalValue(body))
        ELSE ValueError

RECURSIVE Normalize(_, _)
\* the decimal m * 10^x with trailing zeros of m moved into the exponent
Normalize(m, x) ==
    IF m = 0 THEN FloatVal(0, 0)
    ELSE IF m % 10 = 0 THEN Normalize(m \div 10, x + 1)
    ELSE FloatVal(m, x)

\* float(str) for texts over signs, digits, "." and other characters:
\* an optional sign, digits with at most one ".", at least one digit
PyFloat(str) ==
    LET body == Unsigned(str)
        dot  == Find(body, ".")
        whole == IF dot = 0 THEN body ELSE SubSeq(body, 1, dot - 1)
        frac  == IF dot = 0 THEN <<>> ELSE SubSeq(body, dot + 1, Len(body))
    IN  IF AllDigits(whole) /\ AllDigits(frac) /\ Len(whole) + Len(frac) > 0
        THEN Normalize(Sign(str) * DecimalValue(whole \o frac), -Len(frac))
        ELSE ValueError

\* str(str) is the identity on a str
PyStr(str) == StrVal(str)

(***************************************************************************)
(* parse_args: the parser's option table (lines 31-46)                     *)
(***************************************************************************)
DD == <<"-", "-">>

max_depth == <<"m", "a", "x", "_", "d", "e", "p", "t", "h">>
eta == <<"e", "t", "a">>
objective == <<"o", "b", "j", "e", "c", "t", "i", "v", "e">>
train == <<"t", "r", "a", "i", "n">>
model_dir == <<"m", "o", "d", "e", "l", "_", "d", "i", "r">>
help == <<"h", "e", "l", "p">>

\* the literal default of --objective
RegSquaredError ==
    <<"r", "e", "g", ":", "s", "q", "u", "a", "r", "e", "d", "e", "r", "r", "o", "r">>

\* the five dests the parser defines, in the order of their add_argument
Dests == {"max_depth", "eta", "objective", "train", "model_dir"}

\* ArgumentParser() adds -h/--help (add_help=True); lines 34-46 add the rest
OptionStringActions ==
    { [option_string |-> <<"-", "h">>,      dest |-> "help",      type |-> "none",  nargs |-> 0],
      [option_string |-> DD \o help,        dest |-> "help",      type |-> "none",  nargs |-> 0],
      [option_string |-> DD \o max_depth,   dest |-> "max_depth", type |-> "int",   nargs |-> 1],
      [option_string |-> DD \o eta,         dest |-> "eta",       type |-> "float", nargs |-> 1],
      [option_string |-> DD \o objective,   dest |-> "objective", type |-> "str",   nargs |-> 1],
      [option_string |-> DD \o train,       dest |-> "train",     type |-> "str",   nargs |-> 1],
      [option_string |-> DD \o model_dir,   dest |-> "model_dir", type |-> "str",   nargs |-> 1] }

NoAction == [option_string |-> <<>>, dest |-> "none", type |-> "none", nargs |-> 0]

\* os.environ.get(name): the value of the variable, None when it is not set
EnvironGet(env, name) == env[name]

\* Defaults with the two environment variables taken for each other
DefaultsSwapped(env) ==
    [ max_depth |-> IntVal(5),
      eta       |-> FloatVal(2, -1),
      objective |-> StrVal(RegSquaredError),
      train     |-> EnvironGet(env, "SM_MODEL_DIR"),
      model_dir |-> EnvironGet(env, "SM_CHANNEL_TRAIN") ]

\* the default= of each add_argument call, evaluated when the parser is built
Defaults(env) ==
    [ max_depth |-> IntVal(5),
      eta       |-> FloatVal(2, -1),
      objective |-> StrVal(RegSquaredError),
      train     |-> EnvironGet(env, "SM_CHANNEL_TRAIN"),
      model_dir |-> EnvironGet(env, "SM_MODEL_DIR") ]

\* the type= callable of an action applied to an argument string
GetValue(type, str) ==
    CASE type = "int"   -> PyInt(str)
      [] type = "float" -> PyFloat(str)
      [] OTHER          -> PyStr(str)

(***************************************************************************)
(* argparse: classification of one argument string (_parse_optional)       *)
(***************************************************************************)
\* the option strings a possibly abbreviated argument string could mean
GetOptionTuples(arg) ==
    IF StartsWith(arg, DD)
    THEN LET eq == Find(arg, "=")
             option_prefix == IF eq = 0 THEN arg ELSE SubSeq(arg, 1, eq - 1)
             explicit_arg == IF eq = 0 THEN None ELSE StrVal(SubSeq(arg, eq + 1, Len(arg)))
         IN  { [action |-> a, explicit_arg |-> explicit_arg] :
                 a \in {b \in OptionStringActions : StartsWith(b.option_string, option_prefix)} }
    ELSE LET short_option_prefix == SubSeq(arg, 1, 2)
             short_explicit_arg == StrVal(SubSeq(arg, 3, Len(arg)))
         IN  { [action |-> a, explicit_arg |-> short_explicit_arg] :
                 a \in {b \in OptionStringActions : b.option_string = short_option_prefix} }
             \cup
             { [action |-> a, explicit_arg |-> None] :
                 a \in {b \in OptionStringActions :
                          /\ b.option_string # short_option_prefix
                          /\ StartsWith(b.option_string, arg)} }

\* ^-\d+$|^-\d*\.\d+$
NegativeNumber(arg) ==
    /\ Len(arg) >= 2
    /\ arg[1] = "-"
    /\ LET body == SubSeq(arg, 2, Len(arg))
           dot == Find(body, ".")
       IN  \/ AllDigits(body)
           \/ /\ dot # 0
              /\ AllDigits(SubSeq(body, 1, dot - 1))
              /\ dot < Len(body)
              /\ AllDigits(SubSeq(body, dot + 1, Len(body)))

\* kind "A": a positional; "O": an option (action.dest = "none" when it is
\* unknown); "ambiguous": the parser reports an ambiguous option and exits
ParseOptional(arg) ==
    LET positional == [kind |-> "A", action |-> NoAction, explicit_arg |-> None]
        exact == {a \in OptionStringActions : a.option_string = arg}
        eq == Find(arg, "=")
        before == SubSeq(arg, 1, eq - 1)
        exactEq == {a \in OptionStringActions : eq # 0 /\ a.option_string = before}
        tuples == GetOptionTuples(arg)
    IN  IF arg = <<>> THEN positional
        ELSE IF arg[1] # "-" THEN positional
        ELSE IF exact # {}
             THEN [kind |-> "O", action |-> CHOOSE a \in exact : TRUE, explicit_arg |-> None]
        ELSE IF Len(arg) = 1 THEN positional
        ELSE IF exactEq # {}
             THEN [kind |-> "O", action |-> CHOOSE a \in exactEq : TRUE,
                   explicit_arg |-> StrVal(SubSeq(arg, eq + 1, Len(arg)))]
        ELSE IF Cardinality(tuples) > 1
             THEN [kind |-> "ambiguous", action |-> NoAction, explicit_arg |-> None]
        ELSE IF Cardinality(tuples) = 1
             THEN LET tup == CHOOSE x \in tuples : TRUE
                  IN  [kind |-> "O", action |-> tup.action, explicit_arg |-> tup.explicit_arg]
        ELSE IF NegativeNumber(arg) THEN positional
        ELSE IF Find(arg, " ") # 0 THEN positional
        ELSE [kind |-> "O", action |-> NoAction, explicit_arg |-> None]

(***************************************************************************)
(* argparse: parse_known_args (line 48)                                    *)
(***************************************************************************)
\* index of the first "--" argument string, 0 when there is none
FirstDoubleDash(argv) ==
    IF \E k \in 1..Len(argv) : argv[k] = DD
    THEN CHOOSE k \in 1..Len(argv) : argv[k] = DD /\ \A j \in 1..(k - 1) : argv[j] # DD
    ELSE 0

\* arg_strings_pattern with the option tuple found at each index: "-" for
\* the first "--", "A" for everything after it
Classify(argv) ==
    LET dd == FirstDoubleDash(argv)
    IN  [k \in 1..Len(argv) |->
           IF dd # 0 /\ k = dd
           THEN [kind |-> "-", action |-> NoAction, explicit_arg |-> None]
           ELSE IF dd # 0 /\ k > dd
           THEN [kind |-> "A", action |-> NoAction, explicit_arg |-> None]
           ELSE ParseOptional(argv[k])]

\* the namespace before any argument string is consumed: every dest holds
\* its action's default
InitialNamespace(env) == Defaults(env)

\* a default that is a str goes through the action's type callable after
\* parsing when the option was not seen
ConvertDefault(dest, default) ==
    IF default.t = "str"
    THEN LET a == CHOOSE b \in OptionStringActions : b.dest = dest
         IN  GetValue(a.type, default.s)
    ELSE default

Ok(ns, extras) ==
    [status |-> "ok", error |-> "none", dest |-> "none", namespace |-> ns, extras |-> extras]

\* parser.error(): usage message on stderr, SystemExit(2)
UsageError(kind, dest, ns) ==
    [status |-> "usage_error", error |-> kind, dest |-> dest, namespace |-> ns, extras |-> <<>>]

\* the help action: help text on stdout, SystemExit(0)
HelpExit(ns) ==
    [status |-> "help", error |-> "none", dest |-> "help", namespace |-> ns, extras |-> <<>>]

\* StoreValue that keeps the default when the conversion fails
StoreValueKeepDefault(ns, action, str) ==
    LET value == GetValue(action.type, str)
    IN  IF value = ValueError
        THEN Ok(ns, <<>>)
        ELSE Ok([ns EXCEPT ![action.dest] = value], <<>>)

\* take_action for a store action given the one argument string str (never
\* "--" itself): _get_values puts it through the type callable, a failed
\* conversion is reported as a usage error, otherwise the dest is set
StoreValue(ns, action, str) ==
    LET value == GetValue(action.type, str)
    IN  IF value = ValueError
        THEN UsageError("invalid_" \o action.type, action.dest, ns)
        ELSE Ok([ns EXCEPT ![action.dest] = value], <<>>)

\* consume_optional(start) for the option tuple at index start; stop is the
\* index after the last argument string it used.  The nargs pattern of an
\* option is "(A)" for a store action and "()" for help.
ConsumeOptional(argv, cls, start, ns) ==
    LET tup == cls[start]
        action == tup.action
        after == start + 1
        matched == after <= Len(argv) /\ cls[after].kind = "A"
    IN  IF tup.explicit_arg # None
        THEN IF action.nargs = 1
             THEN [res |-> StoreValue(ns, action, tup.explicit_arg.s), stop |-> after]
             ELSE IF /\ action.option_string[2] # "-"
                     /\ tup.explicit_arg.s # <<>>
                     /\ \A k \in 1..Len(tup.explicit_arg.s) : tup.explicit_arg.s[k] = "h"
                  THEN [res |-> HelpExit(ns), stop |-> after]
                  ELSE [res |-> UsageError("ignored_explicit_argument", action.dest, ns),
                        stop |-> after]
        ELSE IF action.nargs = 0
             THEN [res |-> HelpExit(ns), stop |-> after]
             ELSE IF matched
                  THEN [res |-> StoreValue(ns, action, argv[after]), stop |-> after + 1]
                  ELSE [res |-> UsageError("expected_one_argument", action.dest, ns),
                        stop |-> after]

OptionIndices(cls) == {k \in DOMAIN cls : cls[k].kind = "O"}

RECURSIVE ConsumeFrom(_, _, _, _, _)
\* the loop that alternates between extras and options, from start on
ConsumeFrom(argv, cls, start, ns, extras) ==
    LET later == {k \in OptionIndices(cls) : k >= start}
    IN  IF later = {}
        THEN Ok(ns, extras \o SubSeq(argv, start, Len(argv)))
        ELSE LET next_option_string_index == CHOOSE k \in later : \A j \in later : k <= j
                 skipped == extras \o SubSeq(argv, start, next_option_string_index - 1)
             IN  IF cls[next_option_string_index].action = NoAction
                 THEN ConsumeFrom(argv, cls, next_option_string_index + 1, ns,
                                  Append(skipped, argv[next_option_string_index]))
                 ELSE LET c == ConsumeOptional(argv, cls, next_option_string_index, ns)
                      IN  IF c.res.status = "ok"
                          THEN ConsumeFrom(argv, cls, c.stop, c.res.namespace, skipped)
                          ELSE c.res

\* parser.parse_known_args() on sys.argv[1:] with the environment env
ParseKnownArgs(argv, env) ==
    LET cls == Classify(argv)
        ns0 == InitialNamespace(env)
    IN  IF \E k \in DOMAIN cls : cls[k].kind = "ambiguous"
        THEN UsageError("ambiguous_option", "none", ns0)
        ELSE LET r == ConsumeFrom(argv, cls, 1, ns0, <<>>)
                 seen == {cls[k].action.dest : k \in OptionIndices(cls)}
             IN  IF r.status = "ok"
                 THEN Ok([d \in Dests |->
                            IF d \in seen THEN r.namespace[d]
                            ELSE ConvertDefault(d, r.namespace[d])],
                         r.extras)
                 ELSE r

\* parse_args(): builds the parser from the environment and parses argv
parse_args(argv, env) == ParseKnownArgs(argv, env)

(***************************************************************************)
(* Paths and the file system (POSIX)                                       *)
(***************************************************************************)
xgboost_model == <<"x", "g", "b", "o", "o", "s", "t", "-", "m", "o", "d", "e", "l">>
train_csv == <<"t", "r", "a", "i", "n", ".", "c", "s", "v">>
NoneText == <<"N", "o", "n", "e">>

\* the working directory of the process, as path components
Cwd == << <<"c", "o", "d", "e">> >>

RECURSIVE Components(_)
\* the non-empty components of a path between its "/" separators
Components(path) ==
    LET sep == Find(path, "/")
    IN  IF path = <<>> THEN <<>>
        ELSE IF sep = 0 THEN <<path>>
        ELSE IF sep = 1 THEN Components(SubSeq(path, 2, Len(path)))
        ELSE <<SubSeq(path, 1, sep - 1)>> \o Components(SubSeq(path, sep + 1, Len(path)))

\* the file-system location a path names: absolute paths from the root,
\* relative paths from the working directory
Resolve(path) ==
    IF path # <<>> /\ path[1] = "/" THEN Components(path) ELSE Cwd \o Components(path)

Parent(loc) == SubSeq(loc, 1, Len(loc) - 1)

\* PathJoin that concatenates without a separator
PathJoinNoSeparator(a, b) == a \o b

\* os.path.join(a, b) (posixpath)
PathJoin(a, b) ==
    IF b # <<>> /\ b[1] = "/" THEN b
    ELSE IF a = <<>> \/ a[Len(a)] = "/" THEN a \o b
    ELSE a \o <<"/">> \o b

\* open(path, "rb") on the file system (dirs, files): the fault it raises,
\* "none" when the file opens
OpenForReading(path, dirs, files) ==
    LET loc == Resolve(path)
    IN  IF path = <<>> THEN "FileNotFoundError"
        ELSE IF loc \in dirs THEN "IsADirectoryError"
        ELSE IF loc \notin DOMAIN files THEN "FileNotFoundError"
        ELSE IF ~files[loc].readable THEN "PermissionError"
        ELSE "none"

\* open(path, "wb"): the fault it raises, "none" when the file is created
\* or truncated
OpenForWriting(path, dirs, files) ==
    LET loc == Resolve(path)
    IN  IF path = <<>> THEN "FileNotFoundError"
        ELSE IF loc \in dirs THEN "IsADirectoryError"
        ELSE IF Parent(loc) \notin dirs THEN "FileNotFoundError"
        ELSE "none"

\* WriteFile that empties the rest of the file system first
WriteFileAlone(fs, loc, data) ==
    [l \in {loc} |-> [readable |-> TRUE, data |-> data]]

\* the files after writing data to the file opened "wb" at loc
WriteFile(files, loc, data) ==
    [l \in DOMAIN files \cup {loc} |->
       IF l = loc THEN [readable |-> TRUE, data |-> data] ELSE files[l]]

(***************************************************************************)
(* pickle: objects are records [t, v, items]; a pickle is a sequence of    *)
(* byte values                                                             *)
(***************************************************************************)
PyNone == [t |-> "none", v |-> 0, items |-> <<>>]
PyBool(b) == [t |-> "bool", v |-> IF b THEN 1 ELSE 0, items |-> <<>>]
PyInteger(n) == [t |-> "int", v |-> n, items |-> <<>>]
PyTuple(items) == [t |-> "tuple", v |-> 0, items |-> items]
\* an object pickle cannot serialize (a lambda, an open file)
PyFunction == [t |-> "function", v |-> 0, items |-> <<>>]

PROTO == 128
FRAME == 149
STOP == 46
NONE == 78
NEWTRUE == 136
NEWFALSE == 137
BININT1 == 75
EMPTY_TUPLE == 41
TUPLE1 == 133
TUPLE2 == 134
TUPLE3 == 135
MEMOIZE == 148
DEFAULT_PROTOCOL == 4
HIGHEST_PROTOCOL == 5
FRAME_SIZE_MIN == 4

Picklable(obj) ==
    /\ obj.t # "function"
    /\ \A k \in 1..Len(obj.items) :
          /\ obj.items[k].t # "function"
          /\ \A j \in 1..Len(obj.items[k].items) : obj.items[k].items[j].t # "function"

RECURSIVE Save(_)
RECURSIVE SaveAll(_)
\* the opcodes the pickler emits for one object
Save(obj) ==
    CASE obj.t = "none" -> <<NONE>>
      [] obj.t = "bool" -> IF obj.v = 1 THEN <<NEWTRUE>> ELSE <<NEWFALSE>>
      [] obj.t = "int"  -> <<BININT1, obj.v>>
      [] obj.t = "tuple" ->
           IF obj.items = <<>> THEN <<EMPTY_TUPLE>>
           ELSE SaveAll(obj.items)
                \o <<CASE Len(obj.items) = 1 -> TUPLE1
                       [] Len(obj.items) = 2 -> TUPLE2
                       [] Len(obj.items) = 3 -> TUPLE3>>
                \o <<MEMOIZE>>

SaveAll(items) ==
    IF items = <<>> THEN <<>> ELSE Save(Head(items)) \o SaveAll(Tail(items))

\* an 8-byte little-endian length below 256
Length8(n) == <<n, 0, 0, 0, 0, 0, 0, 0>>

\* PickleDumps by a pickler whose protocol is newer than the loader knows
PickleDumpsNewer(obj) ==
    LET payload == Save(obj) \o <<STOP>>
    IN  <<PROTO, HIGHEST_PROTOCOL + 1>>
        \o (IF Len(payload) >= FRAME_SIZE_MIN THEN <<FRAME>> \o Length8(Len(payload)) ELSE <<>>)
        \o payload

\* pickle.dumps(obj) with the default protocol: header, one frame when the
\* payload has at least FRAME_SIZE_MIN bytes, the payload ending in STOP
PickleDumps(obj) ==
    LET payload == Save(obj) \o <<STOP>>
    IN  <<PROTO, DEFAULT_PROTOCOL>>
        \o (IF Len(payload) >= FRAME_SIZE_MIN THEN <<FRAME>> \o Length8(Len(payload)) ELSE <<>>)
        \o payload

Loaded(obj) == [fault |-> "none", obj |-> obj]
LoadFault(fault) == [fault |-> fault, obj |-> PyNone]

RECURSIVE LittleEndian(_)
\* the unsigned integer with the given bytes, least significant first
LittleEndian(bytes) ==
    IF bytes = <<>> THEN 0 ELSE Head(bytes) + 256 * LittleEndian(Tail(bytes))

RECURSIVE Unpickle(_, _, _)
\* the unpickler's loop: data from position pos on, with the given stack
Unpickle(data, pos, stack) ==
    LET op == data[pos]
        n == Len(stack)
    IN  IF pos > Len(data) THEN LoadFault("EOFError")
        ELSE CASE op = PROTO ->
                    IF pos + 1 > Len(data) THEN LoadFault("UnpicklingError")
                    ELSE IF data[pos + 1] > HIGHEST_PROTOCOL THEN LoadFault("ValueError")
                    ELSE Unpickle(data, pos + 2, stack)
               [] op = FRAME ->
                    IF pos + 8 > Len(data) THEN LoadFault("UnpicklingError")
                    ELSE IF data[pos + 8] >= 128 THEN LoadFault("OverflowError")
                    ELSE IF \/ \E k \in 4..8 : data[pos + k] # 0
                            \/ pos + 8 + LittleEndian(SubSeq(data, pos + 1, pos + 3)) > Len(data)
                         THEN LoadFault("UnpicklingError")
                    ELSE Unpickle(data, pos + 9, stack)
               [] op = NONE -> Unpickle(data, pos + 1, Append(stack, PyNone))
               [] op = NEWTRUE -> Unpickle(data, pos + 1, Append(stack, PyBool(TRUE)))
               [] op = NEWFALSE -> Unpickle(data, pos + 1, Append(stack, PyBool(FALSE)))
               [] op = BININT1 ->
                    IF pos + 1 > Len(data) THEN LoadFault("UnpicklingError")
                    ELSE Unpickle(data, pos + 2, Append(stack, PyInteger(data[pos + 1])))
               [] op = EMPTY_TUPLE -> Unpickle(data, pos + 1, Append(stack, PyTuple(<<>>)))
               [] op \in {TUPLE1, TUPLE2, TUPLE3} ->
                    LET k == op - TUPLE1 + 1
                    IN  IF n < k THEN LoadFault("UnpicklingError")
                        ELSE Unpickle(data, pos + 1,
                                      Append(SubSeq(stack, 1, n - k),
                                             PyTuple(SubSeq(stack, n - k + 1, n))))
               [] op = MEMOIZE ->
                    IF n = 0 THEN LoadFault("UnpicklingError")
                    ELSE Unpickle(data, pos + 1, stack)
               [] op = STOP ->
                    IF n = 0 THEN LoadFault("UnpicklingError") ELSE Loaded(stack[n])
               [] OTHER -> LoadFault("UnpicklingError")

\* pickle.loads(data)
PickleLoads(data) == Unpickle(data, 1, <<>>)

(***************************************************************************)
(* Bounds and input sets                                                   *)
(***************************************************************************)
\* longest command line given to the resolver alone
MaxArgs == 3
\* longest command line of a run of the script
MaxRunArgs == 2
\* most calls of model_fn in one serving lifetime
MaxLoads == 2

Txt_t == <<"/", "t">>
Txt_m == <<"/", "m">>
Txt_m_slash == <<"/", "m", "/">>
Txt_nodir == <<"/", "n", "o">>

\* the argument strings command lines are built from
Tokens ==
    { DD \o max_depth, DD \o eta, DD \o objective, DD \o train, DD \o model_dir,
      <<"-", "-", "m">>, <<"-", "-", "m", "a", "x">>, <<"-", "-", "K">>,
      DD \o help, DD,
      <<"7">>, <<"-", "3">>, <<"x">>, <<"0", ".", "5">>, Txt_t,
      DD \o eta \o <<"=", "0", ".", "5">>, DD \o model_dir \o <<"=">> \o Txt_m,
      DD \o max_depth \o <<"=", "x">> }

ArgvSet(n) == UNION {[1..k -> Tokens] : k \in 0..n}

\* os.environ restricted to the two variables the script reads
Environs ==
    [SM_CHANNEL_TRAIN : {None, StrVal(Txt_t)},
     SM_MODEL_DIR : {None, StrVal(Txt_m), StrVal(<<>>)}]

NoEnviron == [SM_CHANNEL_TRAIN |-> None, SM_MODEL_DIR |-> None]

\* objects a caller may bind to the global name model
Objects ==
    { PyNone, PyBool(TRUE), PyInteger(2), PyTuple(<<>>),
      PyTuple(<<PyInteger(1)>>), PyTuple(<<PyInteger(1), PyBool(FALSE)>>),
      PyTuple(<<PyTuple(<<PyInteger(1)>>), PyNone>>), PyFunction }

\* directory arguments of model_fn and values of args.model_dir
ModelDirs == {Txt_m, Txt_m_slash, <<>>, Txt_nodir}

LocTrainCsv == << <<"t">>, train_csv >>
LocModel == << <<"m">>, xgboost_model >>
LocOther == << <<"m">>, <<"o", "t", "h", "e", "r">> >>

File(readable, data) == [readable |-> readable, data |-> data]

\* the function with the given (location, file) pairs
FilesFrom(pairs) ==
    [l \in {pr[1] : pr \in pairs} |-> (CHOOSE pr \in pairs : pr[1] = l)[2]]

\* "1,2\n"
CsvBytes == <<49, 44, 50, 10>>

\* the training channel: train.csv present, absent, unreadable or empty
TrainChannels ==
    { {<<LocTrainCsv, File(TRUE, CsvBytes)>>}, {},
      {<<LocTrainCsv, File(FALSE, CsvBytes)>>}, {<<LocTrainCsv, File(TRUE, <<>>)>>} }

\* the model directory /m when it exists: another file, and possibly an
\* artifact left by an earlier run (valid, empty or truncated)
ModelDirContents ==
    { {<<LocOther, File(TRUE, CsvBytes)>>},
      {<<LocOther, File(TRUE, CsvBytes)>>, <<LocModel, File(TRUE, PickleDumps(PyInteger(1)))>>},
      {<<LocOther, File(TRUE, CsvBytes)>>, <<LocModel, File(TRUE, <<>>)>>},
      {<<LocOther, File(TRUE, CsvBytes)>>, <<LocModel, File(TRUE, <<PROTO, DEFAULT_PROTOCOL, NONE>>)>>} }

BaseDirs == {<<>>, Cwd, << <<"t">> >>}

\* the file systems a run may start in, as records [dirs, files]
FileSystems ==
    { [dirs |-> BaseDirs \cup {<< <<"m">> >>}, files |-> FilesFrom(tc \cup mc)] :
        tc \in TrainChannels, mc \in ModelDirContents }
    \cup
    { [dirs |-> BaseDirs, files |-> FilesFrom(tc)] : tc \in TrainChannels }

EmptyNamespace == [d \in {} |-> None]

\* namespaces a caller that imports the module may bind to the global args
ImportedNamespaces ==
    { [d \in Dests \cup ks |->
         CASE d = "max_depth" -> IntVal(5)
           [] d = "eta" -> FloatVal(2, -1)
           [] d = "objective" -> StrVal(RegSquaredError)
           [] d = "train" -> tr
           [] d = "model_dir" -> md
           [] d = "K" -> IntVal(5)] :
        ks \in {{}, {"K"}},
        tr \in {None, StrVal(Txt_t)},
        md \in {None} \cup {StrVal(m) : m \in ModelDirs} }

(***************************************************************************)
(* State                                                                   *)
(***************************************************************************)
VARIABLES
    entry,            \* "resolver": parse_args() alone; "main": the script run
                      \* as __main__; "import": train() called by a module that
                      \* imported the script and bound its globals; "load":
                      \* the serving process that calls model_fn
    argv,             \* sys.argv[1:]
    environ,          \* os.environ
    dirs,             \* directories that exist
    files,            \* regular files: location -> [readable, data]
    files0,           \* the files when the process started
    pc,               \* position of the process
    fault,            \* the exception that ended the process, "none" otherwise
    exit_code,        \* status of a SystemExit, -1 otherwise
    resolved,         \* what parse_args() returned or how it exited
    bound,            \* module globals that are bound, among args, k_fold_avg, model
    args,             \* the global args (a namespace: attribute -> value)
    k_fold_avg,       \* the global k_fold_avg
    model,            \* the global model
    K,                \* train()'s local K
    train_df,         \* train()'s local train_df (the bytes of the table)
    model_location,   \* train()'s local model_location
    stdout,           \* lines printed
    steps,            \* the statements of train() completed so far, in order
    read_attempts,    \* locations train() tried to open for reading
    opened,           \* locations opened for writing
    loads             \* the calls of model_fn so far: [dir, path, fault, obj]

vars == <<entry, argv, environ, dirs, files, files0, pc, fault, exit_code, resolved,
          bound, args, k_fold_avg, model, K, train_df, model_location, stdout,
          steps, read_attempts, opened, loads>>

NotResolved ==
    [status |-> "none", error |-> "none", dest |-> "none",
     namespace |-> EmptyNamespace, extras |-> <<>>]

\* the part of the state every process starts with
Fresh ==
    /\ fault = "none"
    /\ exit_code = -1
    /\ resolved = NotResolved
    /\ K = None
    /\ train_df = <<>>
    /\ model_location = <<>>
    /\ stdout = <<>>
    /\ steps = <<>>
    /\ read_attempts = {}
    /\ opened = {}
    /\ loads = <<>>
    /\ files0 = files

Unbound ==
    /\ bound = {}
    /\ args = EmptyNamespace
    /\ k_fold_avg = None
    /\ model = PyNone

\* python script.py <argv>: nothing but the imports and definitions has run
InitMain ==
    /\ entry = "main"
    /\ pc = "main_80"
    /\ argv \in ArgvSet(MaxRunArgs)
    /\ environ \in Environs
    /\ \E fs \in FileSystems : dirs = fs.dirs /\ files = fs.files
    /\ Unbound
    /\ Fresh

\* a caller imported the module, bound some of the globals train() reads
\* and is about to call train()
InitImport ==
    /\ entry = "import"
    /\ pc = "train_56"
    /\ argv = <<>>
    /\ environ = NoEnviron
    /\ \E fs \in FileSystems : dirs = fs.dirs /\ files = fs.files
    /\ bound \in SUBSET {"args", "k_fold_avg", "model"}
    /\ IF "args" \in bound THEN args \in ImportedNamespaces ELSE args = EmptyNamespace
    /\ IF "k_fold_avg" \in bound THEN k_fold_avg = FloatVal(15, -1) ELSE k_fold_avg = None
    /\ IF "model" \in bound THEN model \in Objects ELSE model = PyNone
    /\ Fresh

\* the serving process imported the module and will call model_fn
InitLoad ==
    /\ entry = "load"
    /\ pc = "serving"
    /\ argv = <<>>
    /\ environ = NoEnviron
    /\ \E fs \in FileSystems : dirs = fs.dirs /\ files = fs.files
    /\ Unbound
    /\ Fresh

Init == InitMain \/ InitImport \/ InitLoad

(***************************************************************************)
(* The script: __main__ (lines 78-81) and train() (lines 51-75)            *)
(***************************************************************************)
TrainLocals == <<K, train_df, model_location>>
Globals == <<bound, args, k_fold_avg, model>>
Inputs == <<entry, argv, environ, dirs, files0>>

\* an exception nothing catches: traceback, the process ends
Raise(exception) ==
    /\ pc' = "failed"
    /\ fault' = exception
    /\ UNCHANGED exit_code

\* the statement completed: go on to the statement at next
Goto(next, step) ==
    /\ pc' = next
    /\ steps' = Append(steps, step)
    /\ UNCHANGED <<fault, exit_code>>

\* str(value) as an f-string field formats it
Format(value) == IF value.t = "none" THEN NoneText ELSE value.s

\* line 80: args, _ = parse_args(); a SystemExit from the parser ends the
\* process with its status, otherwise the global args is bound
MainParseArgs ==
    /\ pc = "main_80"
    /\ LET r == parse_args(argv, environ)
       IN  /\ resolved' = r
           /\ IF r.status = "ok"
              THEN /\ pc' = "train_56"
                   /\ args' = r.namespace
                   /\ bound' = bound \cup {"args"}
                   /\ UNCHANGED <<fault, exit_code>>
              ELSE /\ pc' = "exited"
                   /\ fault' = "SystemExit"
                   /\ exit_code' = IF r.status = "help" THEN 0 ELSE 2
                   /\ UNCHANGED <<args, bound>>
    /\ UNCHANGED <<Inputs, files, k_fold_avg, model, TrainLocals, stdout, steps,
                   read_attempts, opened, loads>>

\* TrainK that takes a missing K for None (getattr with a default)
TrainKGetattr ==
    /\ pc = "train_56"
    /\ IF "args" \notin bound
       THEN Raise("NameError") /\ UNCHANGED <<K, steps>>
       ELSE /\ K' = IF "K" \in DOMAIN args THEN args["K"] ELSE None
            /\ Goto("train_58", "K")
    /\ UNCHANGED <<Inputs, files, resolved, Globals, train_df, model_location, stdout,
                   read_attempts, opened, loads>>

\* line 56: K = args.K
TrainK ==
    /\ pc = "train_56"
    /\ IF "args" \notin bound
       THEN Raise("NameError") /\ UNCHANGED <<K, steps>>
       ELSE IF "K" \notin DOMAIN args
       THEN Raise("AttributeError") /\ UNCHANGED <<K, steps>>
       ELSE K' = args["K"] /\ Goto("train_58", "K")
    /\ UNCHANGED <<Inputs, files, resolved, Globals, train_df, model_location, stdout,
                   read_attempts, opened, loads>>

\* TrainHyperparameters in a train() that does not read the table
TrainHyperparametersSkipRead ==
    /\ pc = "train_58"
    /\ Goto("train_71", "hyperparameters")
    /\ UNCHANGED <<Inputs, files, resolved, Globals, TrainLocals, stdout,
                   read_attempts, opened, loads>>

\* lines 58-63: hyperparameters = {}
TrainHyperparameters ==
    /\ pc = "train_58"
    /\ Goto("train_65", "hyperparameters")
    /\ UNCHANGED <<Inputs, files, resolved, Globals, TrainLocals, stdout,
                   read_attempts, opened, loads>>

\* the path line 65 reads
TrainPath(ns) == Format(ns["train"]) \o <<"/">> \o train_csv

\* pd.read_csv(path, header=None, index_col=None): the fault it raises,
\* "none" when the table is read
ReadCsv(path, ds, fs) ==
    LET f == OpenForReading(path, ds, fs)
    IN  IF f # "none" THEN f
        ELSE IF fs[Resolve(path)].data = <<>> THEN "EmptyDataError"
        ELSE "none"

\* TrainReadCsv that goes on with an empty table when the read fails
TrainReadCsvSwallow ==
    /\ pc = "train_65"
    /\ LET path == Format(args["train"]) \o <<"/">> \o train_csv
           f == ReadCsv(path, dirs, files)
       IN  /\ read_attempts' = read_attempts \cup {Resolve(path)}
           /\ train_df' = IF f # "none" THEN <<>> ELSE files[Resolve(path)].data
           /\ Goto("train_71", "read_csv")
    /\ UNCHANGED <<Inputs, files, resolved, Globals, K, model_location, stdout,
                   opened, loads>>

\* line 65: train_df = pd.read_csv(f"{args.train}/train.csv", ...)
TrainReadCsv ==
    /\ pc = "train_65"
    /\ LET path == TrainPath(args)
           f == ReadCsv(path, dirs, files)
       IN  /\ read_attempts' = read_attempts \cup {Resolve(path)}
           /\ IF f # "none"
              THEN Raise(f) /\ UNCHANGED <<train_df, steps>>
              ELSE train_df' = files[Resolve(path)].data /\ Goto("train_71", "read_csv")
    /\ UNCHANGED <<Inputs, files, resolved, Globals, K, model_location, stdout,
                   opened, loads>>

\* line 71: print(f"RMSE average across folds: {k_fold_avg}")
TrainPrint ==
    /\ pc = "train_71"
    /\ IF "k_fold_avg" \notin bound
       THEN Raise("NameError") /\ UNCHANGED <<stdout, steps>>
       ELSE /\ stdout' = Append(stdout, [text |-> "RMSE average across folds: ",
                                         value |-> k_fold_avg])
            /\ Goto("train_73", "print")
    /\ UNCHANGED <<Inputs, files, resolved, Globals, TrainLocals, read_attempts,
                   opened, loads>>

\* the path line 73 computes from a str model_dir
ModelLocation(dir) == dir \o <<"/">> \o xgboost_model

\* line 73: model_location = args.model_dir + "/xgboost-model"
TrainModelLocation ==
    /\ pc = "train_73"
    /\ IF args["model_dir"].t # "str"
       THEN Raise("TypeError") /\ UNCHANGED <<model_location, steps>>
       ELSE /\ model_location' = ModelLocation(args["model_dir"].s)
            /\ Goto("train_74", "model_location")
    /\ UNCHANGED <<Inputs, files, resolved, Globals, K, train_df, stdout, read_attempts,
                   opened, loads>>

\* line 74: pickle.dump(model, open(model_location, "wb")).  The name model
\* is evaluated before open() is called; open() creates or truncates the
\* file; dump() writes the pickle, or raises and leaves the file empty; the
\* file object is closed when the call returns
TrainDump ==
    /\ pc = "train_74"
    /\ LET f == OpenForWriting(model_location, dirs, files)
           loc == Resolve(model_location)
       IN  IF "model" \notin bound
           THEN Raise("NameError") /\ UNCHANGED <<files, opened, steps>>
           ELSE IF f # "none"
           THEN Raise(f) /\ UNCHANGED <<files, opened, steps>>
           ELSE /\ opened' = opened \cup {loc}
                /\ IF Picklable(model)
                   THEN /\ files' = WriteFile(files, loc, PickleDumps(model))
                        /\ Goto("train_75", "dump")
                   ELSE /\ files' = WriteFile(files, loc, <<>>)
                        /\ Raise("PicklingError")
                        /\ UNCHANGED steps
    /\ UNCHANGED <<Inputs, resolved, Globals, TrainLocals, stdout, read_attempts, loads>>

\* line 75: logging.info("Stored trained model at ..."); train() returns
\* and the process ends
TrainLog ==
    /\ pc = "train_75"
    /\ Goto("done", "log")
    /\ UNCHANGED <<Inputs, files, resolved, Globals, TrainLocals, stdout,
                   read_attempts, opened, loads>>

(***************************************************************************)
(* model_fn (lines 16-22)                                                  *)
(***************************************************************************)
\* the path line 21 opens
ModelFile(dir) == PathJoin(dir, xgboost_model)

\* model_fn that returns None when the file cannot be opened
model_fn_default(dir, ds, fs) ==
    LET path == ModelFile(dir)
        f == OpenForReading(path, ds, fs)
    IN  IF f # "none" THEN Loaded(PyNone)
        ELSE PickleLoads(fs[Resolve(path)].data)

\* model_fn(model_dir): the object it returns, or the fault it raises
model_fn(dir, ds, fs) ==
    LET path == ModelFile(dir)
        f == OpenForReading(path, ds, fs)
    IN  IF f # "none" THEN LoadFault(f)
        ELSE PickleLoads(fs[Resolve(path)].data)

\* the serving side calls model_fn(dir): in the serving process, or after
\* a training run has ended with its artifact written.  Each call is
\* recorded with the location it read and whether it returned
CallModelFn ==
    /\ pc \in {"serving", "done"}
    /\ Len(loads) < MaxLoads
    /\ \E dir \in ModelDirs :
          LET r == model_fn(dir, dirs, files)
          IN  loads' = Append(loads, [dir |-> dir,
                                      loc |-> Resolve(ModelFile(dir)),
                                      fault |-> r.fault,
                                      returned |-> r.fault = "none",
                                      obj |-> r.obj])
    /\ UNCHANGED <<Inputs, files, pc, fault, exit_code, resolved, Globals, TrainLocals,
                   stdout, steps, read_attempts, opened>>

Next ==
    \/ MainParseArgs
    \/ TrainK
    \/ TrainHyperparameters
    \/ TrainReadCsv
    \/ TrainPrint
    \/ TrainModelLocation
    \/ TrainDump
    \/ TrainLog
    \/ CallModelFn

Spec == Init /\ [][Next]_vars

(***************************************************************************)
(* The resolver on its own, over longer command lines                      *)
(***************************************************************************)
InitResolver ==
    /\ entry = "resolver"
    /\ pc = "parse_args"
    /\ argv \in ArgvSet(MaxArgs)
    /\ environ \in Environs
    /\ dirs = BaseDirs
    /\ files = FilesFrom({})
    /\ Unbound
    /\ Fresh

\* a call of parse_args()
CallParseArgs ==
    /\ pc = "parse_args"
    /\ resolved' = parse_args(argv, environ)
    /\ pc' = "returned"
    /\ UNCHANGED <<Inputs, files, fault, exit_code, Globals, TrainLocals, stdout, steps,
                   read_attempts, opened, loads>>

NextResolver == CallParseArgs

SpecResolver == InitResolver /\ [][NextResolver]_vars

(***************************************************************************)
(* The command line as the specification reads it                          *)
(***************************************************************************)
OptionName(d) ==
    CASE d = "max_depth" -> max_depth
      [] d = "eta" -> eta
      [] d = "objective" -> objective
      [] d = "train" -> train
      [] d = "model_dir" -> model_dir

TypeOf(d) ==
    CASE d = "max_depth" -> "int"
      [] d = "eta" -> "float"
      [] OTHER -> "str"

EnvVarOf(d) == IF d = "train" THEN "SM_CHANNEL_TRAIN" ELSE "SM_MODEL_DIR"

\* the stated literal defaults: 5, 0.2, "reg:squarederror"; the two path
\* flags have none
LiteralDefault(d) ==
    CASE d = "max_depth" -> IntVal(5)
      [] d = "eta" -> FloatVal(2, -1)
      [] d = "objective" -> StrVal(RegSquaredError)
      [] OTHER -> None

\* the dest whose flag the token is, spelled in full
FlagDest(tok) ==
    IF \E d \in Dests : tok = DD \o OptionName(d)
    THEN CHOOSE d \in Dests : tok = DD \o OptionName(d)
    ELSE "none"

\* the dest of a --flag=value token
EqDest(tok) ==
    IF \E d \in Dests : StartsWith(tok, DD \o OptionName(d) \o <<"=">>)
    THEN CHOOSE d \in Dests : StartsWith(tok, DD \o OptionName(d) \o <<"=">>)
    ELSE "none"

EqText(tok) == SubSeq(tok, Find(tok, "=") + 1, Len(tok))

\* a token that can stand as a flag's value: it does not look like a flag
IsValueText(tok) == tok = <<>> \/ tok[1] # "-" \/ NegativeNumber(tok)

RECURSIVE GivenItems(_)
\* the (flag, value) items of a command line made of "--flag value" and
\* "--flag=value"; an item with dest "malformed" where that reading stops
GivenItems(line) ==
    IF line = <<>> THEN <<>>
    ELSE IF FlagDest(line[1]) # "none" /\ Len(line) >= 2 /\ IsValueText(line[2])
    THEN <<[dest |-> FlagDest(line[1]), text |-> line[2]]>>
         \o GivenItems(SubSeq(line, 3, Len(line)))
    ELSE IF EqDest(line[1]) # "none"
    THEN <<[dest |-> EqDest(line[1]), text |-> EqText(line[1])]>> \o GivenItems(Tail(line))
    ELSE <<[dest |-> "malformed", text |-> line[1]]>>

\* every item names one of the five flags once, with a value of its type
WellFormed(line) ==
    LET items == GivenItems(line)
    IN  \A k \in 1..Len(items) :
           /\ items[k].dest \in Dests
           /\ GetValue(TypeOf(items[k].dest), items[k].text) # ValueError
           /\ \A j \in 1..Len(items) : j # k => items[j].dest # items[k].dest

Given(line, d) == \E k \in 1..Len(GivenItems(line)) : GivenItems(line)[k].dest = d

\* flag, else environment variable, else literal default
Expected(line, env, d) ==
    LET items == GivenItems(line)
    IN  IF Given(line, d)
        THEN LET k == CHOOSE k \in 1..Len(items) : items[k].dest = d
             IN  GetValue(TypeOf(d), items[k].text)
        ELSE IF d \in {"train", "model_dir"} /\ env[EnvVarOf(d)] # None
        THEN env[EnvVarOf(d)]
        ELSE LiteralDefault(d)

\* C1: for every well-formed command line and every environment, each of
\* the five flags resolves to the value given on the command line when the
\* flag is present, else (for --train and --model_dir) to SM_CHANNEL_TRAIN
\* resp. SM_MODEL_DIR when set, else to the literal default.
C1_FlagElseEnvElseDefault ==
    (pc = "returned" /\ WellFormed(argv)) =>
        /\ resolved.status = "ok"
        /\ \A d \in Dests : resolved.namespace[d] = Expected(argv, environ, d)

\* a flag given on the command line wins over a set environment variable,
\* while another flag falls back to its environment variable
C1_Witness ==
    /\ pc = "returned"
    /\ WellFormed(argv)
    /\ Given(argv, "max_depth") /\ resolved.namespace["max_depth"] # IntVal(5)
    /\ Given(argv, "model_dir")
    /\ environ["SM_MODEL_DIR"] # None
    /\ resolved.namespace["model_dir"] # environ["SM_MODEL_DIR"]
    /\ ~Given(argv, "train")
    /\ resolved.namespace["train"] = StrVal(Txt_t)

\* a flag the resolver's add_argument calls do not define
IsUnknownFlag(tok) ==
    /\ StartsWith(tok, DD)
    /\ Len(tok) > 2
    /\ FlagDest(tok) = "none"
    /\ EqDest(tok) = "none"

RECURSIVE RemoveUnknown(_)
\* the command line with the unknown flags removed
RemoveUnknown(line) ==
    IF line = <<>> THEN <<>>
    ELSE IF IsUnknownFlag(Head(line)) THEN RemoveUnknown(Tail(line))
    ELSE <<Head(line)>> \o RemoveUnknown(Tail(line))

RECURSIVE KnownFlagsWellFormed(_)
\* every defined flag is directly followed by a value of its type; unknown
\* flags and stray values stand between such items
KnownFlagsWellFormed(line) ==
    IF line = <<>> THEN TRUE
    ELSE IF FlagDest(line[1]) # "none"
    THEN /\ Len(line) >= 2
         /\ IsValueText(line[2])
         /\ GetValue(TypeOf(FlagDest(line[1])), line[2]) # ValueError
         /\ KnownFlagsWellFormed(SubSeq(line, 3, Len(line)))
    ELSE IF EqDest(line[1]) # "none"
    THEN /\ GetValue(TypeOf(EqDest(line[1])), EqText(line[1])) # ValueError
         /\ KnownFlagsWellFormed(Tail(line))
    ELSE IF IsUnknownFlag(line[1]) \/ IsValueText(line[1])
    THEN KnownFlagsWellFormed(Tail(line))
    ELSE FALSE

\* C7: for every command line that contains flags the resolver does not
\* define, parse_args does not fail, the unknown flags do not appear in the
\* resolved argument set, and the five known flags resolve as they do for
\* the command line with the unknown flags removed.
C7_UnknownFlagsDiscarded ==
    ( /\ pc = "returned"
      /\ KnownFlagsWellFormed(argv)
      /\ \E k \in 1..Len(argv) : IsUnknownFlag(argv[k]) ) =>
        /\ resolved.status = "ok"
        /\ DOMAIN resolved.namespace = Dests
        /\ \A d \in Dests :
              resolved.namespace[d] = parse_args(RemoveUnknown(argv), environ).namespace[d]

(***************************************************************************)
(* Runs of the script                                                      *)
(***************************************************************************)
TrainPositions ==
    {"train_56", "train_58", "train_65", "train_71", "train_73", "train_74", "train_75"}

\* nothing of train() has happened
TrainNotEntered ==
    /\ pc \notin TrainPositions \cup {"done"}
    /\ steps = <<>>
    /\ K = None

NothingRead == read_attempts = {} /\ train_df = <<>>

NothingWritten == opened = {} /\ files = files0

\* <model_dir>/xgboost-model as the specification writes it
ArtifactPath(dir) == dir \o <<"/">> \o xgboost_model

\* C2: after any successful run of the training entry point, a file exists
\* at <model_dir>/xgboost-model and the run has created or modified no
\* other file.
C2_OnlyTheArtifactWritten ==
    pc = "done" =>
        LET artifact == Resolve(ArtifactPath(args["model_dir"].s))
        IN  /\ artifact \in DOMAIN files
            /\ opened = {artifact}
            /\ DOMAIN files = DOMAIN files0 \cup {artifact}
            /\ \A l \in DOMAIN files0 : l # artifact => files[l] = files0[l]

\* a run ended successfully in a model directory that already held another
\* file and an artifact of an earlier run
C2_Witness ==
    /\ pc = "done"
    /\ steps[Len(steps)] = "log"
    /\ LocOther \in DOMAIN files0
    /\ LocModel \in DOMAIN files0
    /\ files[LocModel] # files0[LocModel]
    /\ files[LocOther] = files0[LocOther]

\* the training file is missing or unreadable at the resolved --train path
TrainFileMissing == OpenForReading(Format(args["train"]) \o <<"/">> \o train_csv, dirs, files0) # "none"

\* C3: in every run where <train>/train.csv is missing or unreadable at the
\* resolved --train path, train() fails, and nothing has been written to or
\* opened for writing in the model directory (or anywhere) before the failure.
C3_NoWriteWhenTrainFileMissing ==
    ( /\ "args" \in bound
      /\ pc \in TrainPositions \cup {"done", "failed"}
      /\ TrainFileMissing ) =>
        /\ pc \in {"train_56", "train_58", "train_65", "failed"}
        /\ NothingWritten
        /\ "dump" \notin {steps[k] : k \in 1..Len(steps)}

\* the read of the missing file was attempted and the run failed on it
C3_Witness ==
    /\ "args" \in bound
    /\ TrainFileMissing
    /\ pc = "failed"
    /\ fault \in {"FileNotFoundError", "PermissionError"}
    /\ read_attempts # {}
    /\ LocOther \in DOMAIN files0
    /\ NothingWritten

\* C4: round trip: a model object serialized the way the Driver does and then
\* read back by model_fn from the file the Driver wrote comes back equal to
\* the original, with no transformation applied.
C4_RoundTrip ==
    pc = "done" =>
        \A k \in 1..Len(loads) :
            loads[k].loc \in opened =>
                /\ loads[k].returned
                /\ loads[k].obj = model

\* a nested tuple went through the file and came back
C4_Witness ==
    /\ pc = "done"
    /\ model.t = "tuple"
    /\ Len(model.items) = 2
    /\ model.items[1].t = "tuple"
    /\ \E k \in 1..Len(loads) :
          loads[k].loc \in opened /\ loads[k].returned /\ loads[k].obj = model

\* the writer and the loader name the same file, called xgboost-model, for
\* the model directory dir
SameFile(k) ==
    /\ loads[k].loc \in opened
    /\ loads[k].loc[Len(loads[k].loc)] = xgboost_model
    /\ loads[k].fault \notin {"FileNotFoundError", "IsADirectoryError"}

LacksArtifact(dir) == Resolve(dir) \o <<xgboost_model>> \notin DOMAIN files

\* C6: for every model directory that does not contain a file named
\* xgboost-model, model_fn fails on every call, the same way each time, and
\* never returns an object; it creates no file.
C6_LoadFromDirWithoutArtifactFails ==
    /\ \A k \in 1..Len(loads) :
          LacksArtifact(loads[k].dir) =>
              /\ loads[k].fault = "FileNotFoundError"
              /\ ~loads[k].returned
              /\ \A j \in 1..Len(loads) :
                    loads[j].dir = loads[k].dir => loads[j].fault = loads[k].fault
    /\ entry = "load" => files = files0 /\ opened = {}

\* model_fn was called twice on an existing directory that lacks the file
C6_Witness ==
    /\ entry = "load"
    /\ Len(loads) = 2
    /\ loads[1].dir = Txt_m /\ loads[2].dir = Txt_m
    /\ << <<"m">> >> \in dirs
    /\ LacksArtifact(Txt_m)
    /\ ~loads[1].returned /\ ~loads[2].returned

\* the command line starts with well-formed items and then gives the flag
\* of dest d a value that its type does not accept
RECURSIVE GivesBadValue(_, _)
GivesBadValue(line, d) ==
    IF line = <<>> THEN FALSE
    ELSE IF FlagDest(line[1]) # "none" /\ Len(line) >= 2 /\ IsValueText(line[2])
    THEN IF GetValue(TypeOf(FlagDest(line[1])), line[2]) = ValueError
         THEN FlagDest(line[1]) = d
         ELSE GivesBadValue(SubSeq(line, 3, Len(line)), d)
    ELSE IF EqDest(line[1]) # "none"
    THEN IF GetValue(TypeOf(EqDest(line[1])), EqText(line[1])) = ValueError
         THEN EqDest(line[1]) = d
         ELSE GivesBadValue(Tail(line), d)
    ELSE FALSE

\* the resolver rejected a value of --max_depth or --eta
TypeCoercionFailed ==
    /\ resolved.status = "usage_error"
    /\ resolved.error \in {"invalid_int", "invalid_float"}
    /\ resolved.dest \in {"max_depth", "eta"}

\* C8: when --max_depth is given a value that is not an integer or --eta a
\* value that is not a float, the process fails in the resolver with a usage
\* error and terminates: train() is never entered, the training file is not
\* read, nothing is written, and the failure is not caught or retried.
C8_BadNumberIsUsageError ==
    /\ ( /\ entry = "main"
         /\ pc # "main_80"
         /\ GivesBadValue(argv, "max_depth") \/ GivesBadValue(argv, "eta") ) =>
            resolved.status = "usage_error"
    /\ (entry = "main" /\ TypeCoercionFailed) =>
            /\ pc = "exited"
            /\ fault = "SystemExit"
            /\ exit_code = 2
            /\ "args" \notin bound
            /\ TrainNotEntered
            /\ NothingRead
            /\ NothingWritten

\* --max_depth got a value that is a float but not an integer, with the
\* training file and the model directory in place
C8_Witness ==
    /\ entry = "main"
    /\ argv = <<DD \o max_depth, <<"0", ".", "5">>>>
    /\ TypeCoercionFailed
    /\ resolved.dest = "max_depth"
    /\ pc = "exited"
    /\ LocTrainCsv \in DOMAIN files
    /\ << <<"m">> >> \in dirs

\* the order of the steps as the specification lists them
ListedOrder == <<"read_csv", "hyperparameters", "cross_validation", "print", "dump", "log">>

\* the order of the statements of train()
CodeOrder == <<"K", "hyperparameters", "read_csv", "print", "model_location", "dump", "log">>

IsPrefix(p, q) == Len(p) <= Len(q) /\ SubSeq(q, 1, Len(p)) = p

RECURSIVE Restrict(_, _)
\* the elements of seq that are in set, in their order
Restrict(seq, set) ==
    IF seq = <<>> THEN <<>>
    ELSE IF Head(seq) \in set THEN <<Head(seq)>> \o Restrict(Tail(seq), set)
    ELSE Restrict(Tail(seq), set)

Range(seq) == {seq[k] : k \in 1..Len(seq)}

Ended == pc \in {"done", "failed", "exited"}

FailedAtFirstStatement ==
    /\ pc = "failed"
    /\ fault = "AttributeError"
    /\ steps = <<>>
    /\ K = None

\* C10 as stated: every run of the main entry point fails at the first
\* statement of train(), K = args.K.
C10_EveryRunFailsAtK == (entry = "main" /\ Ended) => FailedAtFirstStatement

\* C10 amended: the resolver defines no flag named K, so K is absent from
\* the resolved argument set for every command line (also one that passes
\* --K); every run of the main entry point in which the resolver returns
\* fails at the first statement of train(), K = args.K, and every other run
\* ends in the resolver; in both cases the training file is not read and no
\* file is written.
C10_NoKSoMainFailsAtK ==
    entry = "main" =>
        /\ resolved.status = "ok" => "K" \notin DOMAIN resolved.namespace
        /\ "args" \in bound => "K" \notin DOMAIN args
        /\ Ended => \/ resolved.status = "ok" /\ FailedAtFirstStatement
                    \/ resolved.status # "ok" /\ pc = "exited" /\ TrainNotEntered
        /\ NothingRead
        /\ NothingWritten

\* a run that passed --K 7 with the training file in place failed at K = args.K
C10_Witness ==
    /\ entry = "main"
    /\ argv = <<<<"-", "-", "K">>, <<"7">>>>
    /\ resolved.extras = argv
    /\ FailedAtFirstStatement
    /\ LocTrainCsv \in DOMAIN files
    /\ environ["SM_CHANNEL_TRAIN"] = StrVal(Txt_t)

====
